---- MODULE Spec2Model ----
(***************************************************************************)
(* Borland demangler syntax tree (src/demangler_llvm/borland_ast.cpp).     *)
(*                                                                         *)
(* Nodes live on a heap; a node's identity (its shared_ptr) is its index   *)
(* in the heap, the null pointer is Null.  A node is a record holding the  *)
(* fields its constructor sets.  Printing is a read-only traversal; its    *)
(* output is a sequence of tokens, each tagged with the node and the side  *)
(* (printLeft "L" / printRight "R") that wrote it to the stream.           *)
(***************************************************************************)
EXTENDS Naturals, Sequences, FiniteSets, TLC

\* ---------------------------------------------------------------- bounds
MaxNodes == 3
MaxLen == 2
MaxCacheNodes == 5
MaxFunctionNodes == 5
MaxTemplateNodes == 4
MaxArrays == 1
MaxCalls == 2

Null == 0
Strings == {"foo", "int"}
Workers == {1, 2}

VARIABLES
    heap,            \* sequence of node records; heap[i] is the node with identity i
    nameNodes,       \* Context: the registered Name nodes
    nestedNameNodes, \* Context: the registered NestedName nodes
    result,          \* the last public call and what it returned
    nameReturns,     \* history: <<string, node>> for every NameNode::create return
    nestedReturns,   \* history: <<super, name, node>> for every NestedNameNode::create return
    pc,              \* per worker: position inside a create call
    call,            \* per worker: the arguments of the create call in progress
    found,           \* per worker: the local `type` (what the lookup returned)
    calls,           \* per worker: number of create calls started
    serialized,      \* whether callers guard every create with one mutex
    lock             \* the mutex holder (Null when free)

vars == <<heap, nameNodes, nestedNameNodes, result, nameReturns, nestedReturns,
          pc, call, found, calls, serialized, lock>>

dataVars == <<heap, nameNodes, nestedNameNodes, nameReturns, nestedReturns>>
workerVars == <<pc, call, found, calls, serialized, lock>>

\* ---------------------------------------------------------------- nodes
\* Default of the has_right_side parameter of Node::Node (declared in the header).
DefaultHasRight == FALSE

NameNode(name) ==
    [kind |-> "KName", _has_right |-> FALSE, _name |-> name]

NestedNameNode(super, name) ==
    [kind |-> "KNestedName", _has_right |-> FALSE, _super |-> super, _name |-> name]

TemplateNode(name, params) ==
    [kind |-> "KTemplateNode", _has_right |-> DefaultHasRight,
     _name |-> name, _params |-> params]

FunctionNode(name, funcType) ==
    [kind |-> "KFunction", _has_right |-> FALSE, _name |-> name, _funcNode |-> funcType]

NodeArray ==
    [kind |-> "KNodeArray", _has_right |-> DefaultHasRight, _nodes |-> <<>>]

ConversionOperatorNode(t) ==
    [kind |-> "KConversionOperator", _has_right |-> DefaultHasRight, _type |-> t]

\* Function type (borland_ast_types): return type and parameter array; its text
\* continues after the name it wraps, so it has a right side.
FunctionTypeNode(retType, params) ==
    [kind |-> "KFunctionType", _has_right |-> TRUE, _retType |-> retType, _params |-> params]

Ids(h) == 1..Len(h)
OfKind(h, k) == {i \in Ids(h) : h[i].kind = k}
IsName(h, i) == h[i].kind \in {"KName", "KNestedName"}

\* The nodes a node holds a shared reference to.
Children(h, n) ==
    CASE h[n].kind = "KName" -> {}
      [] h[n].kind = "KNestedName" -> {h[n]._super, h[n]._name}
      [] h[n].kind = "KFunction" -> {h[n]._name, h[n]._funcNode}
      [] h[n].kind = "KTemplateNode" -> {h[n]._name, h[n]._params} \ {Null}
      [] h[n].kind = "KNodeArray" -> {h[n]._nodes[i] : i \in 1..Len(h[n]._nodes)}
      [] h[n].kind = "KConversionOperator" -> {h[n]._type}
      [] h[n].kind = "KFunctionType" -> {h[n]._retType, h[n]._params} \ {Null}

RECURSIVE Closure(_, _, _)
Closure(h, S, k) ==
    IF k = 0 THEN S ELSE Closure(h, S \cup UNION {Children(h, x) : x \in S}, k - 1)

\* The nodes reachable from n through one or more child references.
Descendants(h, n) == Closure(h, Children(h, n), Len(h))

\* ---------------------------------------------------------------- printing
Tok(s, n, side) == [tok |-> s, by |-> n, side |-> side]

\* What a traversal that exhausts the call stack yields.
Overflow == <<[tok |-> "#stack-overflow", by |-> Null, side |-> "X"]>>

\* Writing two outputs to the stream one after the other.
Cat(x, y) == IF x = Overflow \/ y = Overflow THEN Overflow ELSE x \o y

\* Call depth available to a traversal: more than any acyclic path of the heap.
StackLimit(h) == Len(h) + 1

RECURSIVE print(_, _, _), printLeft(_, _, _), printRight(_, _, _)

NameNode_printLeft(h, n, d) == <<Tok(h[n]._name, n, "L")>>

NestedNameNode_printLeft(h, n, d) ==
    Cat(print(h, h[n]._super, d - 1),
        Cat(<<Tok("::", n, "L")>>, print(h, h[n]._name, d - 1)))

\* Mutant: the function type is printed whole before the name.
FunctionNode_printLeft_WholeType(h, n, d) ==
    Cat(print(h, h[n]._funcNode, d - 1),
        Cat(print(h, h[n]._name, d - 1), printRight(h, h[n]._funcNode, d - 1)))

FunctionNode_printLeft(h, n, d) ==
    Cat(printLeft(h, h[n]._funcNode, d - 1),
        Cat(print(h, h[n]._name, d - 1), printRight(h, h[n]._funcNode, d - 1)))

\* Mutant: the angle brackets are written only around present parameters.
TemplateNode_printLeft_NoBrackets(h, n, d) ==
    Cat(print(h, h[n]._name, d - 1),
        IF h[n]._params # Null
        THEN Cat(<<Tok("<", n, "L")>>,
                 Cat(print(h, h[n]._params, d - 1), <<Tok(">", n, "L")>>))
        ELSE <<>>)

TemplateNode_printLeft(h, n, d) ==
    Cat(print(h, h[n]._name, d - 1),
        Cat(<<Tok("<", n, "L")>>,
            Cat(IF h[n]._params # Null THEN print(h, h[n]._params, d - 1) ELSE <<>>,
                <<Tok(">", n, "L")>>)))

\* The loop of NodeArray::printLeft from position `from` on: separator, then child.
RECURSIVE NodeArray_printOthers(_, _, _, _)
NodeArray_printOthers(h, n, d, from) ==
    IF from > Len(h[n]._nodes) THEN <<>>
    ELSE Cat(<<Tok(", ", n, "L")>>,
             Cat(print(h, h[n]._nodes[from], d - 1),
                 NodeArray_printOthers(h, n, d, from + 1)))

\* Mutant: the separator is written before every child, the first included.
NodeArray_printLeft_LeadingSeparator(h, n, d) ==
    IF h[n]._nodes # <<>> THEN NodeArray_printOthers(h, n, d, 1) ELSE <<>>

NodeArray_printLeft(h, n, d) ==
    IF h[n]._nodes # <<>>
    THEN Cat(print(h, h[n]._nodes[1], d - 1), NodeArray_printOthers(h, n, d, 2))
    ELSE <<>>

ConversionOperatorNode_printLeft(h, n, d) ==
    Cat(<<Tok("operator ", n, "L")>>, print(h, h[n]._type, d - 1))

FunctionTypeNode_printLeft(h, n, d) ==
    IF h[n]._retType # Null
    THEN Cat(print(h, h[n]._retType, d - 1), <<Tok(" ", n, "L")>>)
    ELSE <<>>

FunctionTypeNode_printRight(h, n, d) ==
    Cat(<<Tok("(", n, "R")>>,
        Cat(IF h[n]._params # Null THEN print(h, h[n]._params, d - 1) ELSE <<>>,
            <<Tok(")", n, "R")>>))

\* Node::printRight, the default every variant of this file inherits.
Node_printRight(h, n, d) == <<>>

printLeft(h, n, d) ==
    IF d = 0 THEN Overflow
    ELSE CASE h[n].kind = "KName" -> NameNode_printLeft(h, n, d)
           [] h[n].kind = "KNestedName" -> NestedNameNode_printLeft(h, n, d)
           [] h[n].kind = "KFunction" -> FunctionNode_printLeft(h, n, d)
           [] h[n].kind = "KTemplateNode" -> TemplateNode_printLeft(h, n, d)
           [] h[n].kind = "KNodeArray" -> NodeArray_printLeft(h, n, d)
           [] h[n].kind = "KConversionOperator" -> ConversionOperatorNode_printLeft(h, n, d)
           [] h[n].kind = "KFunctionType" -> FunctionTypeNode_printLeft(h, n, d)

printRight(h, n, d) ==
    IF d = 0 THEN Overflow
    ELSE IF h[n].kind = "KFunctionType" THEN FunctionTypeNode_printRight(h, n, d)
    ELSE Node_printRight(h, n, d)

\* Mutant: print stops after the left side.
Node_print_LeftOnly(h, n, d) == printLeft(h, n, d)

Node_print(h, n, d) ==
    IF h[n]._has_right
    THEN Cat(printLeft(h, n, d), printRight(h, n, d))
    ELSE printLeft(h, n, d)

print(h, n, d) == IF d = 0 THEN Overflow ELSE Node_print(h, n, d)

\* Node::str: print into a fresh stream and return its text.
str(h, n) == LET o == print(h, n, StackLimit(h)) IN [i \in 1..Len(o) |-> o[i].tok]

\* ---------------------------------------------------------------- context
\* Context::getName: the registered Name node whose string is s, or null.
getName(h, ctx, s) ==
    LET hits == {i \in ctx : h[i]._name = s}
    IN IF hits = {} THEN Null ELSE CHOOSE i \in hits : TRUE

\* Context::addName: register a Name node.
addName(ctx, n) == ctx \cup {n}

\* Context::getNestedName: the registered NestedName node whose children are
\* these two instances, or null.
getNestedName(h, ctx, super, name) ==
    LET hits == {i \in ctx : h[i]._super = super /\ h[i]._name = name}
    IN IF hits = {} THEN Null ELSE CHOOSE i \in hits : TRUE

\* Context::addNestedName: register a NestedName node.
addNestedName(ctx, n) == ctx \cup {n}

\* ---------------------------------------------------------------- create
\* operator new: the fresh node's identity is the next heap index.
New(h, node) == [heap |-> Append(h, node), ret |-> Len(h) + 1]

\* Mutant: the new node is returned without being registered.
NameNode_create_insert_Unregistered(h, ctx, name) ==
    LET newName == New(h, NameNode(name))
    IN [heap |-> newName.heap, ctx |-> ctx, ret |-> newName.ret]

\* NameNode::create from the miss on: construct, register, return.
NameNode_create_insert(h, ctx, name) ==
    LET newName == New(h, NameNode(name))
    IN [heap |-> newName.heap, ctx |-> addName(ctx, newName.ret), ret |-> newName.ret]

\* Mutant: the lookup result is ignored, every call constructs.
NameNode_create_NoLookup(h, ctx, name) == NameNode_create_insert(h, ctx, name)

NameNode_create(h, ctx, name) ==
    LET type == getName(h, ctx, name)
    IN IF type # Null
       THEN [heap |-> h, ctx |-> ctx, ret |-> type]
       ELSE NameNode_create_insert(h, ctx, name)

\* NestedNameNode::create from the miss on: construct, register, return.
NestedNameNode_create_insert(h, ctx, super, name) ==
    LET newName == New(h, NestedNameNode(super, name))
    IN [heap |-> newName.heap, ctx |-> addNestedName(ctx, newName.ret),
        ret |-> newName.ret]

\* Mutant: the uncached variant, a fresh node on every call.
NestedNameNode_create_Uncached(h, ctx, super, name) ==
    LET newName == New(h, NestedNameNode(super, name))
    IN [heap |-> newName.heap, ctx |-> ctx, ret |-> newName.ret]

NestedNameNode_create(h, ctx, super, name) ==
    LET type == getNestedName(h, ctx, super, name)
    IN IF type # Null
       THEN [heap |-> h, ctx |-> ctx, ret |-> type]
       ELSE NestedNameNode_create_insert(h, ctx, super, name)

TemplateNode_create(h, name, params) == New(h, TemplateNode(name, params))
FunctionNode_create(h, name, funcType) == New(h, FunctionNode(name, funcType))
NodeArray_create(h) == New(h, NodeArray)
ConversionOperatorNode_create(h, t) == New(h, ConversionOperatorNode(t))
FunctionTypeNode_create(h, retType, params) == New(h, FunctionTypeNode(retType, params))

\* ---------------------------------------------------------------- NodeArray
\* Mutant: the node is put in front, the existing children shift.
NodeArray_addNode_Front(h, a, node) ==
    [h EXCEPT ![a]._nodes = <<node>> \o h[a]._nodes]

NodeArray_addNode(h, a, node) ==
    [h EXCEPT ![a]._nodes = Append(h[a]._nodes, node)]

NodeArray_empty(h, a) == h[a]._nodes = <<>>

NodeArray_size(h, a) == Len(h[a]._nodes)

\* Mutant: the bound is off by one, the last child is out of reach.
NodeArray_get_OffByOne(h, a, i) ==
    IF i + 1 < Len(h[a]._nodes) THEN h[a]._nodes[i + 1] ELSE Null

\* i is unsigned and 0-based.
NodeArray_get(h, a, i) ==
    IF i < Len(h[a]._nodes) THEN h[a]._nodes[i + 1] ELSE Null

\* ---------------------------------------------------------------- state
Idle == [w \in Workers |-> "idle"]
\* A call in progress: <<function, string, super, name>>.
NoCall == <<"none", "", Null, Null>>
CallOp(c) == c[1]
CallKey(c) == c[2]
CallSuper(c) == c[3]
CallName(c) == c[4]

Init ==
    /\ heap = <<>>
    /\ nameNodes = {}
    /\ nestedNameNodes = {}
    /\ result = [op |-> "none"]
    /\ nameReturns = {}
    /\ nestedReturns = {}
    /\ pc = Idle
    /\ call = [w \in Workers |-> NoCall]
    /\ found = [w \in Workers |-> Null]
    /\ calls = [w \in Workers |-> 0]
    /\ serialized = FALSE
    /\ lock = Null

\* ---------------------------------------------------------------- operations
\* Each action is one public call made by the single-threaded parser or driver;
\* max is the number of nodes the explored heap may hold.
NameCreate(s, max) ==
    LET r == NameNode_create(heap, nameNodes, s)
    IN /\ Len(r.heap) <= max
       /\ heap' = r.heap
       /\ nameNodes' = r.ctx
       /\ result' = [op |-> "NameNode::create", key |-> s, ret |-> r.ret]
       /\ nameReturns' = nameReturns \cup {<<s, r.ret>>}
       /\ UNCHANGED <<nestedNameNodes, nestedReturns, workerVars>>

NestedNameCreate(a, b, max) ==
    LET r == NestedNameNode_create(heap, nestedNameNodes, a, b)
    IN /\ Len(r.heap) <= max
       /\ heap' = r.heap
       /\ nestedNameNodes' = r.ctx
       /\ result' = [op |-> "NestedNameNode::create", super |-> a, name |-> b,
                     ret |-> r.ret]
       /\ nestedReturns' = nestedReturns \cup {<<a, b, r.ret>>}
       /\ UNCHANGED <<nameNodes, nameReturns, workerVars>>

Built(op, r, max) ==
    /\ Len(r.heap) <= max
    /\ heap' = r.heap
    /\ result' = [op |-> op, ret |-> r.ret]
    /\ UNCHANGED <<nameNodes, nestedNameNodes, nameReturns, nestedReturns, workerVars>>

TemplateCreate(name, params, max) ==
    Built("TemplateNode::create", TemplateNode_create(heap, name, params), max)

FunctionCreate(name, funcType, max) ==
    Built("FunctionNode::create", FunctionNode_create(heap, name, funcType), max)

NodeArrayCreate(max) ==
    Built("NodeArray::create", NodeArray_create(heap), max)

ConversionOperatorCreate(t, max) ==
    Built("ConversionOperatorNode::create", ConversionOperatorNode_create(heap, t), max)

FunctionTypeCreate(retType, params, max) ==
    Built("FunctionTypeNode::create", FunctionTypeNode_create(heap, retType, params), max)

AddNode(a, node) ==
    /\ Len(heap[a]._nodes) < MaxLen
    /\ heap' = NodeArray_addNode(heap, a, node)
    /\ result' = [op |-> "addNode", node |-> a, arg |-> node]
    /\ UNCHANGED <<nameNodes, nestedNameNodes, nameReturns, nestedReturns, workerVars>>

Read(r) ==
    /\ result' = r
    /\ UNCHANGED <<dataVars, workerVars>>

Get(a, i) == Read([op |-> "get", node |-> a, arg |-> i, ret |-> NodeArray_get(heap, a, i)])
Size(a) == Read([op |-> "size", node |-> a, ret |-> NodeArray_size(heap, a)])
Empty(a) == Read([op |-> "empty", node |-> a, ret |-> NodeArray_empty(heap, a)])
PrintNode(n) == Read([op |-> "print", node |-> n, ret |-> print(heap, n, StackLimit(heap))])
Str(n) == Read([op |-> "str", node |-> n, ret |-> str(heap, n)])

Arrays == OfKind(heap, "KNodeArray")
\* The arrays no node holds yet: a parser fills a parameter list before it
\* builds the node that owns it.
OpenArrays ==
    {a \in Arrays : \A i \in Ids(heap) :
        /\ heap[i].kind \in {"KTemplateNode", "KFunctionType"} => heap[i]._params # a
        /\ heap[i].kind = "KNodeArray" => \A j \in 1..Len(heap[i]._nodes) : heap[i]._nodes[j] # a}
Names == {i \in Ids(heap) : IsName(heap, i)}

\* Every public operation of the file, on any existing nodes.
Next ==
    \/ \E s \in Strings : NameCreate(s, MaxNodes)
    \/ \E a, b \in Ids(heap) : NestedNameCreate(a, b, MaxNodes)
    \/ \E name \in Ids(heap), params \in Arrays \cup {Null} :
          TemplateCreate(name, params, MaxNodes)
    \/ \E name \in Names, funcType \in OfKind(heap, "KFunctionType") :
          FunctionCreate(name, funcType, MaxNodes)
    \/ NodeArrayCreate(MaxNodes)
    \/ \E t \in Ids(heap) : ConversionOperatorCreate(t, MaxNodes)
    \/ \E retType \in Ids(heap) \cup {Null}, params \in Arrays \cup {Null} :
          FunctionTypeCreate(retType, params, MaxNodes)
    \/ \E a \in Arrays, node \in Ids(heap) : AddNode(a, node)
    \/ \E a \in Arrays, i \in 0..(MaxLen + 1) : Get(a, i)
    \/ \E a \in Arrays : Size(a)
    \/ \E a \in Arrays : Empty(a)
    \/ \E n \in Ids(heap) : PrintNode(n)
    \/ \E n \in Ids(heap) : Str(n)

Spec == Init /\ [][Next]_vars

\* The parser building qualified and template names through the context.
NextCache ==
    \/ \E s \in Strings : NameCreate(s, MaxCacheNodes)
    \/ \E name \in Ids(heap) : TemplateCreate(name, Null, MaxCacheNodes)
    \/ \E a, b \in Ids(heap) : NestedNameCreate(a, b, MaxCacheNodes)

SpecCache == Init /\ [][NextCache]_vars

\* The parser building function symbols, the driver printing them.
NextFunction ==
    \/ \E s \in Strings : NameCreate(s, MaxFunctionNodes)
    \/ Cardinality(Arrays) < MaxArrays /\ NodeArrayCreate(MaxFunctionNodes)
    \/ \E a \in OpenArrays, node \in Names : AddNode(a, node)
    \/ \E retType \in Names \cup {Null}, params \in Arrays \cup {Null} :
          FunctionTypeCreate(retType, params, MaxFunctionNodes)
    \/ \E name \in Names, funcType \in OfKind(heap, "KFunctionType") :
          FunctionCreate(name, funcType, MaxFunctionNodes)
    \/ \E n \in OfKind(heap, "KFunction") : PrintNode(n)

SpecFunction == Init /\ [][NextFunction]_vars

\* The parser building template names, the driver printing them.
NextTemplate ==
    \/ \E s \in Strings : NameCreate(s, MaxTemplateNodes)
    \/ Cardinality(Arrays) < MaxArrays /\ NodeArrayCreate(MaxTemplateNodes)
    \/ \E a \in OpenArrays, node \in Names : AddNode(a, node)
    \/ \E name \in Names, params \in Arrays \cup {Null} :
          TemplateCreate(name, params, MaxTemplateNodes)
    \/ \E n \in OfKind(heap, "KTemplateNode") : Str(n)

SpecTemplate == Init /\ [][NextTemplate]_vars

\* ---------------------------------------------------------------- workers
\* Two workers sharing one Context.  A create call is a lookup step and, after a
\* miss, an insert step; nothing in the code keeps another worker's steps out
\* from between them.  With `serialized` the callers hold one mutex from the
\* call to its return.
InitRace ==
    /\ heap = <<>>
    /\ nameNodes = {}
    /\ nestedNameNodes = {}
    /\ result = [op |-> "none"]
    /\ nameReturns = {}
    /\ nestedReturns = {}
    /\ pc = Idle
    /\ call = [w \in Workers |-> NoCall]
    /\ found = [w \in Workers |-> Null]
    /\ calls = [w \in Workers |-> 0]
    /\ serialized \in BOOLEAN
    /\ lock = Null

Enter(w, c) ==
    /\ pc[w] = "idle"
    /\ calls[w] < MaxCalls
    /\ serialized => lock = Null
    /\ lock' = IF serialized THEN w ELSE lock
    /\ pc' = [pc EXCEPT ![w] = "lookup"]
    /\ call' = [call EXCEPT ![w] = c]
    /\ calls' = [calls EXCEPT ![w] = @ + 1]
    /\ UNCHANGED <<dataVars, result, found, serialized>>

WorkerCallName(w, s) ==
    Enter(w, <<"name", s, Null, Null>>)

WorkerCallNested(w, a, b) ==
    Enter(w, <<"nested", "", a, b>>)

\* auto type = context.getName(name) / context.getNestedName(super, name)
WorkerLookup(w) ==
    /\ pc[w] = "lookup"
    /\ LET type == IF CallOp(call[w]) = "name"
                   THEN getName(heap, nameNodes, CallKey(call[w]))
                   ELSE getNestedName(heap, nestedNameNodes, CallSuper(call[w]), CallName(call[w]))
       IN /\ found' = [found EXCEPT ![w] = type]
          /\ pc' = [pc EXCEPT ![w] = IF type # Null THEN "return" ELSE "insert"]
    /\ UNCHANGED <<dataVars, result, call, calls, serialized, lock>>

\* new node; context.addName(newName) / context.addNestedName(newName)
WorkerInsert(w) ==
    /\ pc[w] = "insert"
    /\ LET r == IF CallOp(call[w]) = "name"
                THEN NameNode_create_insert(heap, nameNodes, CallKey(call[w]))
                ELSE NestedNameNode_create_insert(heap, nestedNameNodes,
                                                  CallSuper(call[w]), CallName(call[w]))
       IN /\ heap' = r.heap
          /\ nameNodes' = IF CallOp(call[w]) = "name" THEN r.ctx ELSE nameNodes
          /\ nestedNameNodes' = IF CallOp(call[w]) = "name" THEN nestedNameNodes ELSE r.ctx
          /\ found' = [found EXCEPT ![w] = r.ret]
    /\ pc' = [pc EXCEPT ![w] = "return"]
    /\ UNCHANGED <<result, nameReturns, nestedReturns, call, calls, serialized, lock>>

\* return type / return newName
WorkerReturn(w) ==
    /\ pc[w] = "return"
    /\ nameReturns' = IF CallOp(call[w]) = "name"
                      THEN nameReturns \cup {<<CallKey(call[w]), found[w]>>}
                      ELSE nameReturns
    /\ nestedReturns' = IF CallOp(call[w]) = "name"
                        THEN nestedReturns
                        ELSE nestedReturns \cup {<<CallSuper(call[w]), CallName(call[w]), found[w]>>}
    /\ pc' = [pc EXCEPT ![w] = "idle"]
    /\ call' = [call EXCEPT ![w] = NoCall]
    /\ found' = [found EXCEPT ![w] = Null]
    /\ lock' = IF serialized THEN Null ELSE lock
    /\ UNCHANGED <<heap, nameNodes, nestedNameNodes, result, calls, serialized>>

NextRace ==
    \/ \E w \in Workers, s \in Strings : WorkerCallName(w, s)
    \/ \E w \in Workers, a, b \in Ids(heap) : WorkerCallNested(w, a, b)
    \/ \E w \in Workers : WorkerLookup(w)
    \/ \E w \in Workers : WorkerInsert(w)
    \/ \E w \in Workers : WorkerReturn(w)

SpecRace == InitRace /\ [][NextRace]_vars

\* ================================================================ claims

\* C1: in one Context, NameNode::create returns the same instance for equal
\* strings and different instances for different strings, every returned node
\* is a Name holding the requested string, and the context never holds two
\* Name instances with the same string.
C1_NameCanonical ==
    /\ \A r1, r2 \in nameReturns : (r1[1] = r2[1]) <=> (r1[2] = r2[2])
    /\ \A r \in nameReturns :
          /\ r[2] \in nameNodes
          /\ heap[r[2]].kind = "KName"
          /\ heap[r[2]]._name = r[1]
    /\ \A i, j \in nameNodes : heap[i]._name = heap[j]._name => i = j

\* A create call that hit: it returned a node older than the newest one, while
\* both strings have been requested.
C1_Witness ==
    /\ result.op = "NameNode::create"
    /\ result.ret < Len(heap)
    /\ Cardinality(nameReturns) = Cardinality(Strings)

\* Two distinct nodes with the same content.
StructurallyEqual(i, j) == i # j /\ heap[i] = heap[j]

\* C2: NestedNameNode::create returns the same instance for the same identity
\* pair of children and a different instance for a different pair, also when
\* the two pairs are structurally equal but distinct instances.
C2_NestedCanonicalByIdentity ==
    /\ \A r1, r2 \in nestedReturns :
          (r1[1] = r2[1] /\ r1[2] = r2[2]) <=> (r1[3] = r2[3])
    /\ \A r \in nestedReturns :
          /\ r[3] \in nestedNameNodes
          /\ heap[r[3]].kind = "KNestedName"
          /\ heap[r[3]]._super = r[1]
          /\ heap[r[3]]._name = r[2]

\* Two separately built, structurally equal Template nodes were each nested
\* with the same inner name: two instances came back, and the last call hit.
C2_Witness ==
    /\ result.op = "NestedNameNode::create"
    /\ result.ret < Len(heap)
    /\ \E r1, r2 \in nestedReturns :
          /\ heap[r1[1]].kind = "KTemplateNode"
          /\ StructurallyEqual(r1[1], r2[1])
          /\ r1[2] = r2[2]
          /\ r1[3] # r2[3]

\* The text of an output, token by token.
Text(o) == [i \in 1..Len(o) |-> o[i].tok]

\* How many tokens of output o were written by node n on the given side.
Written(o, n, side) == Cardinality({i \in 1..Len(o) : o[i].by = n /\ o[i].side = side})

\* The function is `int foo(int)`: return type int, name foo, one parameter int.
IsIntFooInt(fn) ==
    LET f == heap[heap[fn]._funcNode]
        n == heap[heap[fn]._name]
    IN /\ n.kind = "KName" /\ n._name = "foo"
       /\ f._retType # Null
       /\ heap[f._retType].kind = "KName" /\ heap[f._retType]._name = "int"
       /\ f._params # Null
       /\ Len(heap[f._params]._nodes) = 1
       /\ heap[heap[f._params]._nodes[1]].kind = "KName"
       /\ heap[heap[f._params]._nodes[1]]._name = "int"

\* C3: the print of a FunctionNode is the left fragment of its function type,
\* the full print of its name, the right fragment of its function type, each
\* written once; for return type int, name foo and one parameter int the text
\* is `int foo(int)`.
C3_FunctionPrint ==
    (result.op = "print" /\ heap[result.node].kind = "KFunction") =>
        LET fn == result.node
            f == heap[fn]._funcNode
            d == StackLimit(heap)
        IN /\ result.ret =
                 printLeft(heap, f, d) \o print(heap, heap[fn]._name, d)
                     \o printRight(heap, f, d)
           /\ Written(result.ret, f, "R") = Written(printRight(heap, f, d), f, "R")
           /\ Written(result.ret, f, "L") = Written(printLeft(heap, f, d), f, "L")
           /\ Written(result.ret, f, "R") = 2
           /\ IsIntFooInt(fn) => Text(result.ret) = <<"int", " ", "foo", "(", "int", ")">>

\* `int foo(int)` was built and printed.
C3_Witness ==
    /\ result.op = "print"
    /\ heap[result.node].kind = "KFunction"
    /\ IsIntFooInt(result.node)
    /\ Text(result.ret) = <<"int", " ", "foo", "(", "int", ")">>

\* The parameter list a template shows: nothing when absent or empty.
ParamsAbsentOrEmpty(t) ==
    heap[t]._params = Null \/ heap[heap[t]._params]._nodes = <<>>

\* C6: a TemplateNode prints its name, `<`, its params when present, `>`; with
\* params null and with params an empty NodeArray the output is the same,
\* the name followed by `<>`.
C6_TemplatePrint ==
    /\ (result.op = "str" /\ heap[result.node].kind = "KTemplateNode") =>
          LET t == heap[result.node]
          IN result.ret =
                str(heap, t._name) \o <<"<">>
                    \o (IF ParamsAbsentOrEmpty(result.node) THEN <<>>
                        ELSE str(heap, t._params))
                    \o <<">">>
    /\ \A t1, t2 \in OfKind(heap, "KTemplateNode") :
          (/\ heap[t1]._name = heap[t2]._name
           /\ heap[t1]._params = Null
           /\ heap[t2]._params # Null
           /\ heap[heap[t2]._params]._nodes = <<>>)
          => str(heap, t1) = str(heap, t2)

\* A template with null params and one with an empty array, of the same name,
\* exist, and the second was printed.
C6_Witness ==
    /\ result.op = "str"
    /\ heap[result.node].kind = "KTemplateNode"
    /\ heap[result.node]._params # Null
    /\ heap[heap[result.node]._params]._nodes = <<>>
    /\ \E t1 \in OfKind(heap, "KTemplateNode") :
          /\ heap[t1]._params = Null
          /\ heap[t1]._name = heap[result.node]._name
    /\ result.ret = <<heap[heap[result.node]._name]._name, "<", ">">>

\* The output print(sink) gives for node n of heap h.
Printed(h, n) == print(h, n, StackLimit(h))

\* C4: print emits printLeft and then, exactly when the node's flag is set,
\* printRight; the variants of this file inherit a printRight that emits
\* nothing; every token a printRight wrote comes from a node whose flag is set.
C4_PrintProtocol ==
    /\ result.op = "print" =>
          LET n == result.node
              d == StackLimit(heap)
          IN /\ result.ret =
                   Cat(printLeft(heap, n, d),
                       IF heap[n]._has_right THEN printRight(heap, n, d) ELSE <<>>)
             /\ \A k \in 1..Len(result.ret) :
                   result.ret[k].side = "R" => heap[result.ret[k].by]._has_right
    /\ \A n \in Ids(heap) :
          heap[n].kind # "KFunctionType" => printRight(heap, n, StackLimit(heap)) = <<>>

\* A node with the flag set was printed and its right side is in the output,
\* while a node without the flag exists.
C4_Witness ==
    /\ result.op = "print"
    /\ heap[result.node]._has_right
    /\ \E k \in 1..Len(result.ret) : result.ret[k].side = "R"
    /\ \E n \in Ids(heap) : ~heap[n]._has_right

\* The children's full prints joined: a separator before every child but the first.
RECURSIVE Joined(_, _, _)
Joined(h, a, k) ==
    IF k = 0 THEN <<>>
    ELSE Cat(Joined(h, a, k - 1),
             Cat(IF k > 1 THEN <<Tok(", ", a, "L")>> ELSE <<>>,
                 Printed(h, h[a]._nodes[k])))

\* C5: printing a NodeArray emits the full print of each child in insertion
\* order with ", " between consecutive children and none before the first or
\* after the last; an empty array emits nothing, a one-element array only
\* its child.
C5_ArrayPrint ==
    (result.op = "print" /\ heap[result.node].kind = "KNodeArray") =>
        LET a == result.node
            nodes == heap[a]._nodes
        IN /\ result.ret = Joined(heap, a, Len(nodes))
           /\ nodes = <<>> => result.ret = <<>>
           /\ Len(nodes) = 1 => result.ret = Printed(heap, nodes[1])
           /\ (result.ret # Overflow /\ a \notin Descendants(heap, a)) =>
                 Written(result.ret, a, "L") = Len(nodes) - (IF nodes = <<>> THEN 0 ELSE 1)

\* An array of two different names was printed: `foo, int` or `int, foo`.
C5_Witness ==
    /\ result.op = "print"
    /\ heap[result.node].kind = "KNodeArray"
    /\ Len(heap[result.node]._nodes) = MaxLen
    /\ heap[result.node]._nodes[1] # heap[result.node]._nodes[2]
    /\ Text(result.ret) \in {<<"foo", ", ", "int">>, <<"int", ", ", "foo">>}

\* C7: get(i) returns the i-th appended child (0-based) when i < size() and
\* null otherwise, the empty array included, and leaves every node as it was.
C7_GetInRangeOrNull ==
    [][result'.op = "get" =>
          LET nodes == heap[result'.node]._nodes
              i == result'.arg
          IN /\ heap' = heap
             /\ i < Len(nodes) => result'.ret = nodes[i + 1]
             /\ i >= Len(nodes) => result'.ret = Null]_vars

\* get was called past the end of a non-empty array and returned null.
C7_Witness ==
    /\ result.op = "get"
    /\ heap[result.node]._nodes # <<>>
    /\ result.arg >= Len(heap[result.node]._nodes)
    /\ result.ret = Null

\* C8 as claimed: no public operation changes an existing node's attributes or
\* the print output of an existing node.
C8_NeverMutated ==
    [][heap' # heap =>
          \A n \in Ids(heap) :
             /\ heap'[n] = heap[n]
             /\ Printed(heap', n) = Printed(heap, n)]_vars

ReadOps == {"get", "size", "empty", "print", "str"}

\* C8 amended: a node other than a NodeArray never changes; a NodeArray changes
\* only by addNode on it, which appends its argument and keeps the children it
\* had; get, size, empty, print and str change no node; the print output of a
\* node changes only when addNode appends to the node itself or to an array
\* reachable from it.
C8_OnlyAddNodeMutates ==
    [][/\ heap' # heap =>
             \A n \in Ids(heap) :
                /\ heap[n].kind # "KNodeArray" => heap'[n] = heap[n]
                /\ heap'[n] # heap[n] =>
                      /\ result'.op = "addNode"
                      /\ result'.node = n
                      /\ heap'[n] = [heap[n] EXCEPT !._nodes = Append(@, result'.arg)]
                /\ Printed(heap', n) # Printed(heap, n) =>
                      /\ result'.op = "addNode"
                      /\ result'.node \in Descendants(heap, n) \cup {n}
       /\ result'.op \in ReadOps => heap' = heap
       /\ result'.op = "addNode" =>
             heap'[result'.node]._nodes =
                 Append(heap[result'.node]._nodes, result'.arg)]_vars

\* addNode has just appended a second child to the array a Template holds as
\* its params.
C8_Witness ==
    /\ result.op = "addNode"
    /\ Len(heap[result.node]._nodes) = MaxLen
    /\ \E t \in OfKind(heap, "KTemplateNode") : heap[t]._params = result.node

\* C9 as claimed: the child-reference graph is acyclic, no node reaches itself.
C9_Acyclic ==
    \A n \in Ids(heap) : n \notin Descendants(heap, n)

\* Two create calls returned different instances for one key.
DuplicateNames ==
    \E r1, r2 \in nameReturns : r1[1] = r2[1] /\ r1[2] # r2[2]

DuplicateNestedNames ==
    \E r1, r2 \in nestedReturns : r1[1] = r2[1] /\ r1[2] = r2[2] /\ r1[3] # r2[3]

\* C10: when every lookup-then-insert sequence runs under one mutex, no two
\* create calls return different instances for one key; without it the two
\* steps of two workers interleave and such a state is reachable (the witness).
C10_SerializedNoDuplicates ==
    serialized => (~DuplicateNames /\ ~DuplicateNestedNames)

\* Unserialized workers: both lookups for one string missed, both inserted, and
\* the two calls returned two instances; the same happened for a nested name.
C10_Witness ==
    /\ ~serialized
    /\ DuplicateNames
    /\ DuplicateNestedNames

====
